---- MODULE Spec2Model ----
(***************************************************************************)
(* A model of src/core/SkCustomMesh.cpp: the validation of a vertex        *)
(* layout, the construction of a SkCustomMeshSpecification from a layout   *)
(* and two shader sources, and the construction of a SkCustomMesh against  *)
(* a specification.                                                        *)
(*                                                                         *)
(* Every entry point of the file is a function of its arguments, so a      *)
(* behaviour is one invocation: Init draws the invocation (its name and    *)
(* arguments) and the action of that name runs it to its return. A second  *)
(* specification, SpecHash, builds two specifications one after the other  *)
(* to compare their identity hashes. A third, SpecMesh, follows the        *)
(* SkCustomMesh objects of a caller through construction, copies, moves    *)
(* and isValid().                                                          *)
(*                                                                         *)
(* Values: size_t is a W-bit unsigned integer (arithmetic modulo 2^W). A   *)
(* smart pointer (sk_sp, unique_ptr) is a sequence: <<>> is null, <<o>>    *)
(* points at o. Text (SkString, std::string) is a sequence of chunks, each *)
(* chunk a literal piece of text or one character of a name.               *)
(***************************************************************************)
EXTENDS Integers, Sequences, FiniteSets, TLC

VARIABLES
    pc,           \* "call": the invocation has not run yet; "done": it returned
    call,         \* the invocation: [op |-> name, ...arguments]
    ret,          \* the value returned (meaningful once pc = "done")
    compilerLog,  \* the convertProgram calls the shared SkSL compiler has received
    heap,         \* the SkCustomMeshSpecification objects constructed so far
    stages,       \* the steps of specification construction entered, in order
    second,       \* SpecHash: the Result of the second build (<<>> before it)
    meshes,       \* SpecMesh: the SkCustomMesh objects of the caller, by variable
    validity      \* SpecMesh: what the last isValid() saw (<<>> before the first)

vars == <<pc, call, ret, compilerLog, heap, stages, second, meshes, validity>>

---------------------------------------------------------------------------
(* Machine integers.                                                       *)

\* Width in bits of size_t in the model.
W == 12

SizeMod == 2 ^ W

\* size_t addition and multiplication as the hardware does them.
WrapAdd(x, y) == (x + y) % SizeMod

WrapMul(x, y) == (x * y) % SizeMod

\* x & (a - 1) for a power of two a (SkIsPow2 is asserted of the alignment).
MaskLow(x, a) == x % a

---------------------------------------------------------------------------
(* Pointers and text.                                                      *)

Null == <<>>

Ref(o) == <<o>>

IsNull(p) == p = <<>>

Deref(p) == p[1]

\* SkString{}: the empty text.
EmptyText == <<>>

\* Text is empty when it has no character: no chunk, or empty chunks only.
TextIsEmpty(t) == \A i \in DOMAIN t : t[i] = ""

\* SkStringPrintf(fmt, arg): the format's literal text with the argument's
\* text in place of its %s or %zu.
SkStringPrintf(before, arg, after) == <<before>> \o arg \o <<after>>

Letters ==
    {"a", "b", "c", "d", "e", "f", "g", "h", "i", "j", "k", "l", "m",
     "n", "o", "p", "q", "r", "s", "t", "u", "v", "w", "x", "y", "z",
     "A", "B", "C", "D", "E", "F", "G", "H", "I", "J", "K", "L", "M",
     "N", "O", "P", "Q", "R", "S", "T", "U", "V", "W", "X", "Y", "Z"}

Digits == {"0", "1", "2", "3", "4", "5", "6", "7", "8", "9"}

\* std::isalnum(c, std::locale::classic())
isalnum(c) == c \in Letters \cup Digits

---------------------------------------------------------------------------
(* Limits of SkCustomMeshSpecification, as the static assertions of        *)
(* check_vertex_offsets_and_stride bound them.                             *)

kMaxStride == 2048

kMaxAttributes == 8

kStrideAlignment == 4

kOffsetAlignment == 4

kMaxVaryings == 6

AttributeTypes == {"kFloat", "kFloat2", "kFloat3", "kFloat4", "kUByte4_unorm"}

VaryingTypes ==
    {"kFloat", "kFloat2", "kFloat3", "kFloat4", "kHalf", "kHalf2", "kHalf3", "kHalf4"}

attribute_type_size(type) ==
    CASE type = "kFloat"        -> 4
      [] type = "kFloat2"       -> 2 * 4
      [] type = "kFloat3"       -> 3 * 4
      [] type = "kFloat4"       -> 4 * 4
      [] type = "kUByte4_unorm" -> 4

attribute_type_string(type) ==
    CASE type = "kFloat"        -> "float"
      [] type = "kFloat2"       -> "float2"
      [] type = "kFloat3"       -> "float3"
      [] type = "kFloat4"       -> "float4"
      [] type = "kUByte4_unorm" -> "half4"

varying_type_string(type) ==
    CASE type = "kFloat"  -> "float"
      [] type = "kFloat2" -> "float2"
      [] type = "kFloat3" -> "float3"
      [] type = "kFloat4" -> "float4"
      [] type = "kHalf"   -> "half"
      [] type = "kHalf2"  -> "half2"
      [] type = "kHalf3"  -> "half3"
      [] type = "kHalf4"  -> "half4"

\* %zu of a limit, as text.
LimitText(n) == <<ToString(n)>>

---------------------------------------------------------------------------
(* check_name and check_vertex_offsets_and_stride.                         *)

\* (only the emptiness of the name checked)
check_name_not_empty(name) == Len(name) # 0

\* A name passes when it is not empty and each character is '_' or alphanumeric.
check_name(name) ==
    IF Len(name) = 0
    THEN FALSE
    ELSE \A i \in 1..Len(name) : ~(name[i] # "_" /\ ~isalnum(name[i]))

LayoutError(msg) == [ok |-> FALSE, error |-> msg]

LayoutSuccess == [ok |-> TRUE, error |-> EmptyText]

\* The checks of one attribute in the loop; offset + size is a size_t sum.
AttributeOffsetMisaligned(a) == MaskLow(a.offset, kOffsetAlignment) # 0

\* (the second check without the first, which is there to keep the sum from wrapping)
AttributeBeyondStrideUnguarded(a, stride) ==
    WrapAdd(a.offset, attribute_type_size(a.type)) > stride

AttributeBeyondStride(a, stride) ==
    a.offset >= stride \/ WrapAdd(a.offset, attribute_type_size(a.type)) > stride

\* The first attribute, in order, that fails a check decides the message.
RECURSIVE CheckAttributesFrom(_, _, _)
CheckAttributesFrom(attributes, stride, i) ==
    IF i > Len(attributes)
    THEN LayoutSuccess
    ELSE IF AttributeOffsetMisaligned(attributes[i])
    THEN LayoutError(SkStringPrintf("Attribute offset must be a multiple of ",
                                    LimitText(kOffsetAlignment), "."))
    ELSE IF AttributeBeyondStride(attributes[i], stride)
    THEN LayoutError(<<"Attribute offset plus size cannot exceed stride.">>)
    ELSE CheckAttributesFrom(attributes, stride, i + 1)

check_vertex_offsets_and_stride(attributes, stride) ==
    IF Len(attributes) = 0
    THEN LayoutError(<<"At least 1 attribute is required.">>)
    ELSE IF Len(attributes) > kMaxAttributes
    THEN LayoutError(SkStringPrintf("A maximum of ", LimitText(kMaxAttributes),
                                    " attributes is allowed."))
    ELSE IF stride = 0 \/ MaskLow(stride, kStrideAlignment) # 0
    THEN LayoutError(SkStringPrintf("Vertex stride must be a non-zero multiple of ",
                                    LimitText(kStrideAlignment), "."))
    ELSE IF stride > kMaxStride
    THEN LayoutError(SkStringPrintf("Stride cannot exceed ", LimitText(kMaxStride), "."))
    ELSE CheckAttributesFrom(attributes, stride, 1)

---------------------------------------------------------------------------
(* SkSafeMath: each operation returns the wrapped result and clears the    *)
(* ok flag when the true result does not fit in size_t.                    *)

SafeMul(ok, x, y) == [val |-> WrapMul(x, y), ok |-> ok /\ x * y < SizeMod]

SafeAdd(ok, x, y) == [val |-> WrapAdd(x, y), ok |-> ok /\ x + y < SizeMod]

\* sizeof(uint16_t), the size of one index.
IndexSize == 2

SkIsAlign2(x) == x % 2 = 0

---------------------------------------------------------------------------
(* SkCustomMesh.                                                           *)

Modes == {"kTriangles", "kTriangleStrip"}

\* SkCustomMesh{}: the default member initializers of the class.
DefaultMesh ==
    [fSpec |-> Null, fMode |-> "kTriangles", fVB |-> Null, fIB |-> Null,
     fVCount |-> 0, fVOffset |-> 0, fICount |-> 0, fIOffset |-> 0,
     fBounds |-> "empty"]

\* (a minimum of two vertices, as for a line)
min_vcount_of_two(mode) == 2

min_vcount_for_mode(mode) ==
    CASE mode = "kTriangles"     -> 3
      [] mode = "kTriangleStrip" -> 3

\* (validate with its last line returning true: the overflow flag is never read)
validateIgnoringOverflow(m) ==
    IF IsNull(m.fSpec) \/ IsNull(m.fVB) \/ m.fVCount = 0
    THEN FALSE
    ELSE LET stride == Deref(m.fSpec).fStride
             vend == WrapAdd(WrapMul(stride, m.fVCount), m.fVOffset)
             iend == WrapAdd(WrapMul(IndexSize, m.fICount), m.fIOffset)
         IN  /\ vend <= Deref(m.fVB).size
             /\ m.fVOffset % stride = 0
             /\ IF ~IsNull(m.fIB)
                THEN /\ m.fICount >= min_vcount_for_mode(m.fMode)
                     /\ iend <= Deref(m.fIB).size
                     /\ SkIsAlign2(m.fIOffset)
                ELSE /\ m.fVCount >= min_vcount_for_mode(m.fMode)
                     /\ m.fICount = 0 /\ m.fIOffset = 0

validate(m) ==
    IF IsNull(m.fSpec)
    THEN FALSE
    ELSE IF IsNull(m.fVB)
    THEN FALSE
    ELSE IF m.fVCount = 0
    THEN FALSE
    ELSE LET vb    == Deref(m.fVB)
             stride == Deref(m.fSpec).fStride
             vsize == SafeMul(TRUE, stride, m.fVCount)
             vend  == SafeAdd(vsize.ok, vsize.val, m.fVOffset)
         IN  IF vend.val > vb.size
             THEN FALSE
             ELSE IF m.fVOffset % stride # 0
             THEN FALSE
             ELSE IF ~IsNull(m.fIB)
             THEN LET ib    == Deref(m.fIB)
                      isize == SafeMul(vend.ok, IndexSize, m.fICount)
                      iend  == SafeAdd(isize.ok, isize.val, m.fIOffset)
                  IN  IF m.fICount < min_vcount_for_mode(m.fMode)
                      THEN FALSE
                      ELSE IF iend.val > ib.size
                      THEN FALSE
                      ELSE IF ~SkIsAlign2(m.fIOffset)
                      THEN FALSE
                      ELSE iend.ok
             ELSE IF m.fVCount < min_vcount_for_mode(m.fMode)
             THEN FALSE
             ELSE IF m.fICount # 0 \/ m.fIOffset # 0
             THEN FALSE
             ELSE vend.ok

\* (Make without the validation: the mesh is returned as filled in)
MeshMakeUnvalidated(spec, mode, vb, vertexCount, vertexOffset, bounds) ==
    [DefaultMesh EXCEPT !.fSpec = spec, !.fMode = mode, !.fVB = vb,
                        !.fVCount = vertexCount, !.fVOffset = vertexOffset,
                        !.fBounds = bounds]

MeshMake(spec, mode, vb, vertexCount, vertexOffset, bounds) ==
    LET cm == [DefaultMesh EXCEPT !.fSpec = spec, !.fMode = mode, !.fVB = vb,
                                  !.fVCount = vertexCount, !.fVOffset = vertexOffset,
                                  !.fBounds = bounds]
    IN  IF validate(cm) THEN cm ELSE DefaultMesh

MeshMakeIndexed(spec, mode, vb, vertexCount, vertexOffset, ib, indexCount, indexOffset, bounds) ==
    LET cm == [DefaultMesh EXCEPT !.fSpec = spec, !.fMode = mode, !.fVB = vb,
                                  !.fVCount = vertexCount, !.fVOffset = vertexOffset,
                                  !.fIB = ib, !.fICount = indexCount,
                                  !.fIOffset = indexOffset, !.fBounds = bounds]
    IN  IF validate(cm) THEN cm ELSE DefaultMesh

\* The defaulted copy constructor and copy assignment: member by member.
CopyOf(m) == m

\* sk_sp after it was moved from: null.
MovedFromPointer == Null

\* (a move that copies fSpec instead of moving it)
MovedFromKeepingSpec(m) ==
    [m EXCEPT !.fVB = MovedFromPointer, !.fIB = MovedFromPointer]

\* The source of the defaulted move constructor and move assignment
\* afterwards: its three pointers were moved from, the rest was copied.
MovedFrom(m) ==
    [m EXCEPT !.fSpec = MovedFromPointer, !.fVB = MovedFromPointer,
              !.fIB = MovedFromPointer]

\* isValid(): the two sides of its SkASSERT; it returns valid.
isValid(m) ==
    LET valid == ~IsNull(m.fSpec)
    IN  [valid |-> valid, validate |-> validate(m)]

---------------------------------------------------------------------------
(* The SkSL compiler, as far as the file uses it. A compiled Program is    *)
(* [fSource, elements, callsColorTransform]; an element of a program is    *)
(* [isFunctionDefinition, isMain, parameters, returnType]. What the        *)
(* compiler makes of a source is decided by the shader body that ends it:  *)
(* the bodies below stand for the sources a caller may write.              *)

FunctionDefinition(isMain, parameters, returnType) ==
    [isFunctionDefinition |-> TRUE, isMain |-> isMain,
     parameters |-> parameters, returnType |-> returnType]

\* An element that is no function definition (a struct or a global variable).
OtherElement ==
    [isFunctionDefinition |-> FALSE, isMain |-> FALSE,
     parameters |-> <<>>, returnType |-> "void"]

VSMain == "float2 main(in Attributes a, out Varyings v) { ... }"

VSSyntaxError == "float2 main(in Attributes a, out Varyings v) { "

VSNoMain == "float2 helper(float2 p) { return p; }"

VSIntrinsic == "float2 main(in Attributes a, out Varyings v) { ... toLinearSrgb(c) ... }"

FSMainVoid == "void main(const Varyings v) { }"

FSMainCoords == "float2 main(const Varyings v) { ... }"

FSMainHalf4 == "void main(const Varyings v, out half4 color) { ... }"

FSMainHalf4Coords == "float2 main(const Varyings v, out half4 color) { ... }"

FSMainFloat4 == "void main(const Varyings v, out float4 color) { ... }"

FSMainFloat4Coords == "float2 main(const Varyings v, out float4 color) { ... }"

FSSyntaxError == "void main(const Varyings v) { "

FSNoMain == "half4 helper(half4 c) { return c; }"

FSIntrinsic == "void main(const Varyings v, out half4 color) { ... fromLinearSrgb(c) ... }"

VSBodies == {VSMain, VSSyntaxError, VSNoMain, VSIntrinsic}

FSBodies ==
    {FSMainVoid, FSMainCoords, FSMainHalf4, FSMainHalf4Coords, FSMainFloat4,
     FSMainFloat4Coords, FSSyntaxError, FSNoMain, FSIntrinsic}

\* The elements of the program a body compiles to, after those of the structs.
BodyElements(body) ==
    CASE body = VSMain             -> <<FunctionDefinition(TRUE, <<"Attributes", "Varyings">>, "float2")>>
      [] body = VSNoMain           -> <<FunctionDefinition(FALSE, <<"float2">>, "float2")>>
      [] body = VSIntrinsic        -> <<FunctionDefinition(TRUE, <<"Attributes", "Varyings">>, "float2")>>
      [] body = FSMainVoid         -> <<FunctionDefinition(TRUE, <<"Varyings">>, "void")>>
      [] body = FSMainCoords       -> <<FunctionDefinition(TRUE, <<"Varyings">>, "float2")>>
      [] body = FSMainHalf4        -> <<FunctionDefinition(TRUE, <<"Varyings", "half4">>, "void")>>
      [] body = FSMainHalf4Coords  -> <<FunctionDefinition(TRUE, <<"Varyings", "half4">>, "float2")>>
      [] body = FSMainFloat4       -> <<FunctionDefinition(TRUE, <<"Varyings", "float4">>, "void")>>
      [] body = FSMainFloat4Coords -> <<FunctionDefinition(TRUE, <<"Varyings", "float4">>, "float2")>>
      [] body = FSNoMain           -> <<FunctionDefinition(FALSE, <<"half4">>, "half4")>>
      [] body = FSIntrinsic        -> <<FunctionDefinition(TRUE, <<"Varyings", "half4">>, "void")>>
      [] OTHER                     -> <<>>

\* The body that ends a source ("" for the empty source).
BodyOf(source) == IF Len(source) = 0 THEN "" ELSE source[Len(source)]

\* Whether the compiler accepts the source as a program of the kind: a body
\* written for the other stage does not have the signature the kind requires.
Compiles(kind, source) ==
    LET body == BodyOf(source)
    IN  /\ body \notin {VSSyntaxError, FSSyntaxError}
        /\ kind = "kCustomMeshVertex" => body \in VSBodies
        /\ kind = "kCustomMeshFragment" => body \in FSBodies

\* compiler->convertProgram(kind, source, settings): the program, or null.
convertProgram(kind, source) ==
    IF ~Compiles(kind, source)
    THEN Null
    ELSE Ref([fSource |-> source,
              elements |-> <<OtherElement>> \o BodyElements(BodyOf(source)),
              callsColorTransform |-> BodyOf(source) \in {VSIntrinsic, FSIntrinsic}])

\* compiler->errorText() after a failed convertProgram; a source the compiler
\* cannot make sense of at all leaves no diagnostic.
errorText(kind, source) ==
    IF BodyOf(source) \in {VSSyntaxError, FSSyntaxError}
    THEN <<"error: expected '}', but found end of file\n">>
    ELSE EmptyText

\* SkSL::Analysis::CallsColorTransformIntrinsics(program)
CallsColorTransformIntrinsics(program) == program.callsColorTransform

---------------------------------------------------------------------------
(* has_main and get_fs_color_type_and_local_coords.                        *)

IsMainDefinition(elem) == elem.isFunctionDefinition /\ elem.isMain

has_main(p) == \E i \in DOMAIN p.elements : IsMainDefinition(p.elements[i])

\* The declaration the loop returns from: the first definition of main.
FirstMain(p) ==
    LET i == CHOOSE k \in DOMAIN p.elements :
                 /\ IsMainDefinition(p.elements[k])
                 /\ \A j \in 1..(k - 1) : ~IsMainDefinition(p.elements[j])
    IN  p.elements[i]

\* (the color type read from the first parameter instead of the second)
ColorTypeOfFirstParameter(decl) ==
    IF Len(decl.parameters) = 1
    THEN "kNone"
    ELSE IF decl.parameters[1] = "half4" THEN "kHalf4" ELSE "kFloat4"

\* parameters()[1] is the second parameter.
ColorTypeOf(decl) ==
    IF Len(decl.parameters) = 1
    THEN "kNone"
    ELSE IF decl.parameters[2] = "half4" THEN "kHalf4" ELSE "kFloat4"

get_fs_color_type_and_local_coords(fsProgram) ==
    LET decl == FirstMain(fsProgram)
    IN  [ct |-> ColorTypeOf(decl), hasLocalCoords |-> decl.returnType = "float2"]

---------------------------------------------------------------------------
(* SkOpts::hash_fn, the color spaces and the alpha types.                  *)

\* Width in bits of the hash in the model.
HashBits == 16

HashMod == 2 ^ HashBits

\* One step of the hash: order-sensitive mixing of a unit of data into h.
HashMix(h, x) == (h * 31 + x + 1) % HashMod

\* hash_fn(data, len, seed): the units of data mixed into the seed in order.
\* (h is never negative: the comparison only makes the value of h known at
\* each step, so that the steps do not pile up)
RECURSIVE HashFrom(_, _, _)
HashFrom(data, i, h) ==
    IF i > Len(data) \/ h < 0 THEN h ELSE HashFrom(data, i + 1, HashMix(h, data[i]))

hash_fn(data, seed) == HashFrom(data, 1, seed)

\* The chunks of text that have a code of their own; any other chunk is 0.
Vocabulary ==
    <<"_", " ", ";", "a", "b", "c", "p", "o", "s", "u", "v", "x", "1",
      "struct Attributes {\n", "struct Varyings {\n", "  ", ";\n", "};\n",
      "  bool _empty_;\n", "float", "float2", "float3", "float4",
      "half", "half2", "half3", "half4",
      VSMain, VSSyntaxError, VSNoMain, VSIntrinsic, FSMainVoid, FSMainCoords,
      FSMainHalf4, FSMainHalf4Coords, FSMainFloat4, FSMainFloat4Coords,
      FSSyntaxError, FSNoMain, FSIntrinsic>>

ChunkCode(chunk) ==
    IF \E i \in DOMAIN Vocabulary : Vocabulary[i] = chunk
    THEN CHOOSE i \in DOMAIN Vocabulary : Vocabulary[i] = chunk
    ELSE 0

\* The data of a text: the codes of its chunks.
TextData(text) == [i \in DOMAIN text |-> ChunkCode(text[i])]

\* static_cast of Attribute::Type and of SkAlphaType to an integer.
AttributeTypeCode(type) ==
    CASE type = "kFloat"        -> 0
      [] type = "kFloat2"       -> 1
      [] type = "kFloat3"       -> 2
      [] type = "kFloat4"       -> 3
      [] type = "kUByte4_unorm" -> 4

AlphaTypes ==
    {"kUnknown_SkAlphaType", "kOpaque_SkAlphaType", "kPremul_SkAlphaType",
     "kUnpremul_SkAlphaType"}

AlphaTypeCode(at) ==
    CASE at = "kUnknown_SkAlphaType"  -> 0
      [] at = "kOpaque_SkAlphaType"   -> 1
      [] at = "kPremul_SkAlphaType"   -> 2
      [] at = "kUnpremul_SkAlphaType" -> 3

\* Color space objects; hash is what SkColorSpace::hash() returns.
SRGB == [name |-> "sRGB", hash |-> 4401]

DisplayP3 == [name |-> "displayP3", hash |-> 9217]

\* SkColorSpace::MakeSRGB()
MakeSRGB == Ref(SRGB)

---------------------------------------------------------------------------
(* The constructor of SkCustomMeshSpecification.                           *)

\* The loop over fAttributes: offset, then type, of each attribute in order.
RECURSIVE HashAttributesFrom(_, _, _)
HashAttributesFrom(attributes, i, h) ==
    IF i > Len(attributes)
    THEN h
    ELSE LET a == attributes[i]
         IN  HashAttributesFrom(attributes, i + 1,
                                hash_fn(<<AttributeTypeCode(a.type)>>,
                                        hash_fn(<<a.offset>>, h)))

HashAttributes(attributes, h) == HashAttributesFrom(attributes, 1, h)

\* (a hash that also mixes in the number of varyings)
SpecificationHashWithVaryings(attributes, stride, varyings, vs, fs, cs, at) ==
    LET h1 == hash_fn(TextData(vs.fSource), 0)
        h2 == hash_fn(TextData(fs.fSource), h1)
        h3 == HashAttributes(attributes, h2)
        h4 == hash_fn(<<stride>>, h3)
        csHash == IF ~IsNull(cs) THEN Deref(cs).hash ELSE 0
        h5 == hash_fn(<<csHash>>, h4)
        h6 == hash_fn(<<AlphaTypeCode(at)>>, h5)
    IN  hash_fn(<<Len(varyings)>>, h6)

\* The body of the constructor: fHash.
SpecificationHash(attributes, stride, varyings, vs, fs, cs, at) ==
    LET h1 == hash_fn(TextData(vs.fSource), 0)
        h2 == hash_fn(TextData(fs.fSource), h1)
        h3 == HashAttributes(attributes, h2)
        h4 == hash_fn(<<stride>>, h3)
        csHash == IF ~IsNull(cs) THEN Deref(cs).hash ELSE 0
        h5 == hash_fn(<<csHash>>, h4)
    IN  hash_fn(<<AlphaTypeCode(at)>>, h5)

\* new SkCustomMeshSpecification(...): the members, then the hash.
NewSpecification(attributes, stride, varyings, vs, fs, ct, hasLocalCoords, cs, at) ==
    [fAttributes |-> attributes, fVaryings |-> varyings, fVS |-> vs, fFS |-> fs,
     fStride |-> stride, fColorType |-> ct, fHasLocalCoords |-> hasLocalCoords,
     fColorSpace |-> cs, fAlphaType |-> at,
     fHash |-> SpecificationHash(attributes, stride, varyings, vs, fs, cs, at)]

---------------------------------------------------------------------------
(* SkCustomMeshSpecification::MakeFromSourceWithStructs, in its three      *)
(* parts: the checks of the arguments, the two compilations, and the       *)
(* construction. An outcome is the Result returned ([spec, error]) with    *)
(* what the call did on the way: the steps it entered, the convertProgram  *)
(* calls it made and the objects it constructed.                           *)

Outcome(spec, error, stagesRun, compiled, constructed) ==
    [result |-> [spec |-> spec, error |-> error], stages |-> stagesRun,
     compiled |-> compiled, constructed |-> constructed]

\* RETURN_FAILURE(...) and return {nullptr, error}
Failure(error, stagesRun, compiled) == Outcome(Null, error, stagesRun, compiled, <<>>)

AllNamesPass(items) == \A i \in DOMAIN items : check_name(items[i].name)

\* The name the loop over the items stops at: the first that check_name rejects.
FirstRejectedName(items) ==
    LET i == CHOOSE k \in DOMAIN items :
                 /\ ~check_name(items[k].name)
                 /\ \A j \in 1..(k - 1) : check_name(items[j].name)
    IN  items[i].name

AttributeNameError(name) == SkStringPrintf("\"", name, "\" is not a valid attribute name.")

VaryingNameError(name) == SkStringPrintf("\"", name, "\" is not a valid varying name.")

VaryingCountError ==
    SkStringPrintf("A maximum of ", LimitText(kMaxVaryings), " varyings is allowed.")

\* (the checks with the names of the varyings checked before their number)
ValidateInputsNamesFirst(attributes, stride, varyings) ==
    LET layout == check_vertex_offsets_and_stride(attributes, stride)
        s1 == <<"layout">>
        s2 == Append(s1, "attributeNames")
        s3 == Append(s2, "varyingNames")
        s4 == Append(s3, "varyingCount")
    IN  IF ~layout.ok
        THEN [ok |-> FALSE, error |-> layout.error, stages |-> s1]
        ELSE IF ~AllNamesPass(attributes)
        THEN [ok |-> FALSE, stages |-> s2,
              error |-> AttributeNameError(FirstRejectedName(attributes))]
        ELSE IF ~AllNamesPass(varyings)
        THEN [ok |-> FALSE, stages |-> s3,
              error |-> VaryingNameError(FirstRejectedName(varyings))]
        ELSE IF Len(varyings) > kMaxVaryings
        THEN [ok |-> FALSE, error |-> VaryingCountError, stages |-> s4]
        ELSE [ok |-> TRUE, error |-> EmptyText, stages |-> s4]

\* The checks before the compiler is constructed.
ValidateInputs(attributes, stride, varyings) ==
    LET layout == check_vertex_offsets_and_stride(attributes, stride)
        s1 == <<"layout">>
        s2 == Append(s1, "attributeNames")
        s3 == Append(s2, "varyingCount")
        s4 == Append(s3, "varyingNames")
    IN  IF ~layout.ok
        THEN [ok |-> FALSE, error |-> layout.error, stages |-> s1]
        ELSE IF ~AllNamesPass(attributes)
        THEN [ok |-> FALSE, stages |-> s2,
              error |-> AttributeNameError(FirstRejectedName(attributes))]
        ELSE IF Len(varyings) > kMaxVaryings
        THEN [ok |-> FALSE, error |-> VaryingCountError, stages |-> s3]
        ELSE IF ~AllNamesPass(varyings)
        THEN [ok |-> FALSE, stages |-> s4,
              error |-> VaryingNameError(FirstRejectedName(varyings))]
        ELSE [ok |-> TRUE, error |-> EmptyText, stages |-> s4]

NoMainError(stage) ==
    IF stage = "VS"
    THEN <<"Vertex shader must have main function.">>
    ELSE <<"Fragment shader must have main function.">>

IntrinsicsError == <<"Color transform intrinsics are not permitted in custom mesh shaders">>

\* One compilation and the checks of its program; stage is "VS" or "FS".
CompileStage(stage, kind, source) ==
    LET program == convertProgram(kind, source)
        s1 == <<"compile" \o stage>>
        s2 == Append(s1, "main" \o stage)
        s3 == Append(s2, "intrinsics" \o stage)
    IN  IF IsNull(program)
        THEN [ok |-> FALSE, program |-> Null, stages |-> s1,
              error |-> SkStringPrintf(stage \o ": ", errorText(kind, source), "")]
        ELSE IF ~has_main(Deref(program))
        THEN [ok |-> FALSE, program |-> Null, stages |-> s2, error |-> NoMainError(stage)]
        ELSE IF CallsColorTransformIntrinsics(Deref(program))
        THEN [ok |-> FALSE, program |-> Null, stages |-> s3, error |-> IntrinsicsError]
        ELSE [ok |-> TRUE, program |-> program, stages |-> s3, error |-> EmptyText]

ColorSpaceError == <<"Must provide a color space if FS returns a color.">>

AlphaTypeError == <<"Must provide a valid alpha type if FS returns a color.">>

\* (the color space and alpha type of the caller kept when main outputs no color)
FinishSpecificationKeepingColor(attributes, stride, varyings, vsProgram, fsProgram, cs, at) ==
    LET contract == get_fs_color_type_and_local_coords(Deref(fsProgram))
        object == NewSpecification(attributes, stride, varyings, Deref(vsProgram),
                                   Deref(fsProgram), contract.ct,
                                   contract.hasLocalCoords, cs, at)
    IN  IF contract.ct # "kNone" /\ IsNull(cs)
        THEN [spec |-> Null, error |-> ColorSpaceError, constructed |-> <<>>,
              stages |-> <<"contract", "colorSpace">>]
        ELSE IF contract.ct # "kNone" /\ at = "kUnknown_SkAlphaType"
        THEN [spec |-> Null, error |-> AlphaTypeError, constructed |-> <<>>,
              stages |-> <<"contract", "colorSpace", "alphaType">>]
        ELSE [spec |-> Ref(object), error |-> EmptyText, constructed |-> <<object>>,
              stages |-> <<"contract", "colorSpace", "alphaType", "construct">>]

\* (the object constructed before the color space is looked at, and returned
\* beside the message)
FinishSpecificationEager(attributes, stride, varyings, vsProgram, fsProgram, cs, at) ==
    LET contract == get_fs_color_type_and_local_coords(Deref(fsProgram))
        cs1 == IF contract.ct = "kNone" THEN Null ELSE cs
        at1 == IF contract.ct = "kNone" THEN "kPremul_SkAlphaType" ELSE at
        object == NewSpecification(attributes, stride, varyings, Deref(vsProgram),
                                   Deref(fsProgram), contract.ct,
                                   contract.hasLocalCoords, cs1, at1)
    IN  IF contract.ct # "kNone" /\ IsNull(cs1)
        THEN [spec |-> Ref(object), error |-> ColorSpaceError, constructed |-> <<object>>,
              stages |-> <<"contract", "construct", "colorSpace">>]
        ELSE IF contract.ct # "kNone" /\ at1 = "kUnknown_SkAlphaType"
        THEN [spec |-> Ref(object), error |-> AlphaTypeError, constructed |-> <<object>>,
              stages |-> <<"contract", "construct", "colorSpace", "alphaType">>]
        ELSE [spec |-> Ref(object), error |-> EmptyText, constructed |-> <<object>>,
              stages |-> <<"contract", "construct", "colorSpace", "alphaType">>]

\* The contract of the fragment program, the color space and alpha type it
\* asks for, and the construction. When main outputs no color neither check
\* is made: cs and at are overwritten.
FinishSpecification(attributes, stride, varyings, vsProgram, fsProgram, cs, at) ==
    LET contract == get_fs_color_type_and_local_coords(Deref(fsProgram))
        cs1 == IF contract.ct = "kNone" THEN Null ELSE cs
        at1 == IF contract.ct = "kNone" THEN "kPremul_SkAlphaType" ELSE at
        object == NewSpecification(attributes, stride, varyings, Deref(vsProgram),
                                   Deref(fsProgram), contract.ct,
                                   contract.hasLocalCoords, cs1, at1)
    IN  IF contract.ct # "kNone" /\ IsNull(cs1)
        THEN [spec |-> Null, error |-> ColorSpaceError, constructed |-> <<>>,
              stages |-> <<"contract", "colorSpace">>]
        ELSE IF contract.ct # "kNone" /\ at1 = "kUnknown_SkAlphaType"
        THEN [spec |-> Null, error |-> AlphaTypeError, constructed |-> <<>>,
              stages |-> <<"contract", "colorSpace", "alphaType">>]
        ELSE [spec |-> Ref(object), error |-> EmptyText, constructed |-> <<object>>,
              stages |-> IF contract.ct = "kNone"
                         THEN <<"contract", "construct">>
                         ELSE <<"contract", "colorSpace", "alphaType", "construct">>]

VertexCall(vs) == [kind |-> "kCustomMeshVertex", source |-> vs]

FragmentCall(fs) == [kind |-> "kCustomMeshFragment", source |-> fs]

MakeFromSourceWithStructs(attributes, stride, varyings, vs, fs, cs, at) ==
    LET checks == ValidateInputs(attributes, stride, varyings)
        vsStage == CompileStage("VS", "kCustomMeshVertex", vs)
        fsStage == CompileStage("FS", "kCustomMeshFragment", fs)
        finish == FinishSpecification(attributes, stride, varyings, vsStage.program,
                                      fsStage.program, cs, at)
    IN  IF ~checks.ok
        THEN Failure(checks.error, checks.stages, <<>>)
        ELSE IF ~vsStage.ok
        THEN Failure(vsStage.error, checks.stages \o vsStage.stages, <<VertexCall(vs)>>)
        ELSE IF ~fsStage.ok
        THEN Failure(fsStage.error, checks.stages \o vsStage.stages \o fsStage.stages,
                     <<VertexCall(vs), FragmentCall(fs)>>)
        ELSE Outcome(finish.spec, finish.error,
                     checks.stages \o vsStage.stages \o fsStage.stages \o finish.stages,
                     <<VertexCall(vs), FragmentCall(fs)>>, finish.constructed)

---------------------------------------------------------------------------
(* SkCustomMeshSpecification::Make: the synthesis of the two sources, and  *)
(* the overloads that supply a color space and an alpha type.              *)

\* "  %s %s;\n" of a type string and a name.
StructField(typeString, name) == <<"  ", typeString, " ">> \o name \o <<";\n">>

\* The fields appended by the loop over the attributes, from the i-th on.
RECURSIVE AttributeFieldsFrom(_, _)
AttributeFieldsFrom(attributes, i) ==
    IF i > Len(attributes)
    THEN <<>>
    ELSE StructField(attribute_type_string(attributes[i].type), attributes[i].name)
         \o AttributeFieldsFrom(attributes, i + 1)

AttributeFields(attributes) == AttributeFieldsFrom(attributes, 1)

RECURSIVE VaryingFieldsFrom(_, _)
VaryingFieldsFrom(varyings, i) ==
    IF i > Len(varyings)
    THEN <<>>
    ELSE StructField(varying_type_string(varyings[i].type), varyings[i].name)
         \o VaryingFieldsFrom(varyings, i + 1)

VaryingFields(varyings) == VaryingFieldsFrom(varyings, 1)

AttributesStruct(attributes) ==
    <<"struct Attributes {\n">> \o AttributeFields(attributes) \o <<"};\n">>

VaryingStruct(varyings) ==
    <<"struct Varyings {\n">> \o VaryingFields(varyings)
    \o (IF Len(varyings) = 0 THEN <<"  bool _empty_;\n">> ELSE <<>>) \o <<"};\n">>

FullVS(attributes, varyings, vs) ==
    VaryingStruct(varyings) \o AttributesStruct(attributes) \o vs

FullFS(varyings, fs) == VaryingStruct(varyings) \o fs

\* Make(attributes, vertexStride, varyings, vs, fs, cs, at)
SpecMake(attributes, vertexStride, varyings, vs, fs, cs, at) ==
    LET built == MakeFromSourceWithStructs(attributes, vertexStride, varyings,
                                           FullVS(attributes, varyings, vs),
                                           FullFS(varyings, fs), cs, at)
    IN  [built EXCEPT !.stages = <<"synthesis">> \o @]

\* Make(attributes, vertexStride, varyings, vs, fs, cs)
SpecMakePremul(attributes, vertexStride, varyings, vs, fs, cs) ==
    SpecMake(attributes, vertexStride, varyings, vs, fs, cs, "kPremul_SkAlphaType")

\* Make(attributes, vertexStride, varyings, vs, fs)
SpecMakeSRGB(attributes, vertexStride, varyings, vs, fs) ==
    SpecMake(attributes, vertexStride, varyings, vs, fs, MakeSRGB, "kPremul_SkAlphaType")

---------------------------------------------------------------------------
(* The invocations Init draws from.                                        *)

\* The longest attribute list drawn.
MaxAttributeCount == 9

\* The longest varying list drawn.
MaxVaryingCount == 7

Attribute(type, offset, name) == [type |-> type, offset |-> offset, name |-> name]

Varying(type, name) == [type |-> type, name |-> name]

NamePos == <<"p", "o", "s">>

NameUV == <<"u", "v">>

NameC1 == <<"c", "_", "1">>

NameWithSpace == <<"a", " ", "b">>

NameWithSemicolon == <<"x", ";">>

NameEmpty == <<>>

\* check_vertex_offsets_and_stride: offsets and strides around each limit of
\* the check and around the largest size_t.
LayoutOffsets == {0, 2, 4, 8, 16, kMaxStride - 4, SizeMod - 16, SizeMod - 4}

LayoutStrides == {0, 2, 4, 8, 16, kMaxStride, kMaxStride + 4, SizeMod - 4}

LayoutAttributes == {Attribute(t, o, NamePos) : t \in AttributeTypes, o \in LayoutOffsets}

FillerAttributes == {Attribute("kFloat", 0, NamePos), Attribute("kFloat4", 0, NamePos)}

\* Every list of at most two attributes, and the longer lists that repeat one
\* attribute except at one position.
LayoutLists ==
    {<<>>}
    \cup {<<a>> : a \in LayoutAttributes}
    \cup {<<a, b>> : a \in LayoutAttributes, b \in LayoutAttributes}
    \cup UNION {{[i \in 1..n |-> IF i = k THEN a ELSE f] :
                     k \in 1..n, a \in LayoutAttributes, f \in FillerAttributes} :
                n \in 3..MaxAttributeCount}

LayoutCalls ==
    {[op |-> "check_vertex_offsets_and_stride", attributes |-> l, stride |-> s] :
         l \in LayoutLists, s \in LayoutStrides}

\* Specification construction: layouts and names that pass and that fail.
AttrPos == Attribute("kFloat2", 0, NamePos)

BuildAttributeLists ==
    {<<>>,
     <<AttrPos>>,
     <<AttrPos, Attribute("kUByte4_unorm", 8, NameC1)>>,
     <<Attribute("kFloat2", 0, NameWithSpace)>>,
     <<AttrPos, Attribute("kFloat", 8, NameWithSemicolon)>>,
     <<Attribute("kFloat2", 0, NameEmpty)>>,
     <<Attribute("kFloat2", 2, NameWithSpace)>>}

\* The layouts: each list with a stride that fits it, and one stride that
\* no list passes with.
BuildLayouts ==
    {[attributes |-> a, stride |-> 12] : a \in BuildAttributeLists}
    \cup {[attributes |-> <<AttrPos>>, stride |-> 0]}

VaryingList(n, badAt, badName) ==
    [i \in 1..n |-> Varying("kFloat", IF i = badAt THEN badName ELSE NameUV)]

BuildVaryingLists ==
    {<<>>,
     <<Varying("kFloat2", NameUV)>>,
     <<Varying("kHalf4", NameWithSpace)>>,
     <<Varying("kFloat2", NameUV), Varying("kHalf4", NameEmpty)>>,
     VaryingList(kMaxVaryings, 0, NameUV),
     VaryingList(MaxVaryingCount, 0, NameUV),
     VaryingList(MaxVaryingCount, 1, NameWithSemicolon)}

ColorSpaces == {Null, Ref(SRGB), Ref(DisplayP3)}

BuildColorSpaces == {Null, Ref(SRGB)}

BuildAlphaTypes == {"kUnknown_SkAlphaType", "kPremul_SkAlphaType", "kUnpremul_SkAlphaType"}

\* The fragment bodies of the overloads other than the full Make.
FewFSBodies == {FSMainVoid, FSMainHalf4Coords, FSMainFloat4, FSSyntaxError, FSNoMain}

BuildCalls7 ==
    {[op |-> "Make7", attributes |-> l.attributes, stride |-> l.stride, varyings |-> v,
      vs |-> <<vs>>, fs |-> <<fs>>, cs |-> cs, at |-> at] :
         l \in BuildLayouts, v \in BuildVaryingLists,
         vs \in VSBodies, fs \in FSBodies, cs \in BuildColorSpaces,
         at \in BuildAlphaTypes}

BuildCalls6 ==
    {[op |-> "Make6", attributes |-> l.attributes, stride |-> l.stride, varyings |-> v,
      vs |-> <<vs>>, fs |-> <<fs>>, cs |-> cs] :
         l \in BuildLayouts, v \in BuildVaryingLists,
         vs \in VSBodies, fs \in FewFSBodies, cs \in BuildColorSpaces}

BuildCalls5 ==
    {[op |-> "Make5", attributes |-> l.attributes, stride |-> l.stride, varyings |-> v,
      vs |-> <<vs>>, fs |-> <<fs>>] :
         l \in BuildLayouts, v \in BuildVaryingLists,
         vs \in VSBodies, fs \in FewFSBodies}

\* MakeFromSourceWithStructs takes the full sources as they are: here those
\* synthesized for one attribute and no varying, whatever the lists passed.
BuildCallsFromSource ==
    {[op |-> "MakeFromSourceWithStructs", attributes |-> l.attributes,
      stride |-> l.stride, varyings |-> v,
      vs |-> FullVS(<<AttrPos>>, <<>>, <<vs>>),
      fs |-> FullFS(<<>>, <<fs>>), cs |-> cs, at |-> at] :
         l \in BuildLayouts, v \in BuildVaryingLists,
         vs \in VSBodies, fs \in FewFSBodies, cs \in BuildColorSpaces,
         at \in {"kUnknown_SkAlphaType", "kUnpremul_SkAlphaType"}}

\* SpecHash: builds that mostly succeed, and differ in one argument or more.
HashAttributeLists ==
    {<<AttrPos>>, <<Attribute("kFloat2", 0, NameUV)>>, <<Attribute("kFloat3", 0, NamePos)>>,
     <<Attribute("kFloat2", 4, NamePos)>>}

HashVaryingLists == {<<>>, <<Varying("kFloat2", NameUV)>>}

HashCalls7 ==
    {[op |-> "Make7", attributes |-> a, stride |-> s, varyings |-> v,
      vs |-> <<VSMain>>, fs |-> <<fs>>, cs |-> cs, at |-> at] :
         a \in HashAttributeLists \ {<<Attribute("kFloat2", 4, NamePos)>>},
         s \in {12, 16}, v \in HashVaryingLists,
         fs \in {FSMainVoid, FSMainHalf4}, cs \in {Ref(SRGB), Ref(DisplayP3)},
         at \in {"kPremul_SkAlphaType", "kUnpremul_SkAlphaType"}}

HashCallsFromSource ==
    {[op |-> "MakeFromSourceWithStructs", attributes |-> a, stride |-> 12,
      varyings |-> v, vs |-> FullVS(<<AttrPos>>, <<>>, <<VSMain>>),
      fs |-> FullFS(<<>>, <<fs>>), cs |-> cs, at |-> "kPremul_SkAlphaType"] :
         a \in HashAttributeLists, v \in HashVaryingLists,
         fs \in {FSMainVoid, FSMainHalf4}, cs \in {Null, Ref(SRGB)}}

BuildOps == {"Make5", "Make6", "Make7", "MakeFromSourceWithStructs"}

\* get_fs_color_type_and_local_coords: the fragment programs with a main the
\* compiler can produce, main after zero, one or two other elements.
ContractPrograms ==
    {[fSource |-> <<>>, callsColorTransform |-> FALSE,
      elements |-> before \o <<FunctionDefinition(TRUE, params, rt)>>] :
         before \in {<<>>, <<OtherElement>>,
                     <<OtherElement, FunctionDefinition(FALSE, <<"half4", "half4">>, "float2")>>},
         params \in {<<"Varyings">>, <<"Varyings", "half4">>, <<"Varyings", "float4">>},
         rt \in {"void", "float2"}}

ContractCalls ==
    {[op |-> "get_fs_color_type_and_local_coords", fsProgram |-> p] : p \in ContractPrograms}

\* SkCustomMesh::Make and MakeIndexed. A specification is seen through its
\* stride only; a buffer through its size.
MeshSpecs == {Null, Ref([fStride |-> 4]), Ref([fStride |-> 8])}

VertexBuffers == {Null, Ref([size |-> 12])}

IndexBuffers == {Null, Ref([size |-> 6]), Ref([size |-> 8])}

VertexCounts == {0, 2, 3, 4, (SizeMod \div 4) + 3}

VertexOffsets == {0, 1, 4, SizeMod - 4}

IndexCounts == {0, 2, 3, 4, (SizeMod \div 2) + 3}

IndexOffsets == {0, 1, 2, SizeMod - 2}

Bounds == {"empty", "unitSquare"}

MeshCalls ==
    {[op |-> "Make", spec |-> sp, mode |-> m, vb |-> vb, vertexCount |-> vc,
      vertexOffset |-> vo, bounds |-> b] :
         sp \in MeshSpecs, m \in Modes, vb \in VertexBuffers, vc \in VertexCounts,
         vo \in VertexOffsets, b \in Bounds}

MeshIndexedCalls ==
    {[op |-> "MakeIndexed", spec |-> sp, mode |-> m, vb |-> vb, vertexCount |-> vc,
      vertexOffset |-> vo, ib |-> ib, indexCount |-> ic, indexOffset |-> io,
      bounds |-> b] :
         sp \in MeshSpecs, m \in Modes, vb \in VertexBuffers, vc \in VertexCounts,
         vo \in VertexOffsets, ib \in IndexBuffers, ic \in IndexCounts,
         io \in IndexOffsets, b \in Bounds}

MeshOps == {"Make", "MakeIndexed"}

---------------------------------------------------------------------------
(* The specification: one invocation, run to its return.                   *)

Init ==
    /\ pc = "call"
    /\ \/ call \in LayoutCalls
       \/ call \in BuildCalls5
       \/ call \in BuildCalls6
       \/ call \in BuildCalls7
       \/ call \in BuildCallsFromSource
       \/ call \in ContractCalls
       \/ call \in MeshCalls
       \/ call \in MeshIndexedCalls
    /\ ret = <<>>
    /\ compilerLog = <<>>
    /\ heap = <<>>
    /\ stages = <<>>
    /\ second = <<>>
    /\ meshes = <<>>
    /\ validity = <<>>

\* The state after a call that touches neither the compiler nor the heap.
Return(value) ==
    /\ ret' = value
    /\ pc' = "done"
    /\ UNCHANGED <<call, compilerLog, heap, stages, second, meshes, validity>>

\* The state after a specification build with the given outcome.
ReturnBuilt(outcome) ==
    /\ ret' = outcome.result
    /\ compilerLog' = compilerLog \o outcome.compiled
    /\ heap' = heap \o outcome.constructed
    /\ stages' = outcome.stages
    /\ pc' = "done"
    /\ UNCHANGED <<call, second, meshes, validity>>

CallCheckVertexOffsetsAndStride ==
    /\ pc = "call"
    /\ call.op = "check_vertex_offsets_and_stride"
    /\ Return(check_vertex_offsets_and_stride(call.attributes, call.stride))

CallSpecMake5 ==
    /\ pc = "call"
    /\ call.op = "Make5"
    /\ ReturnBuilt(SpecMakeSRGB(call.attributes, call.stride, call.varyings,
                                call.vs, call.fs))

CallSpecMake6 ==
    /\ pc = "call"
    /\ call.op = "Make6"
    /\ ReturnBuilt(SpecMakePremul(call.attributes, call.stride, call.varyings,
                                  call.vs, call.fs, call.cs))

CallSpecMake7 ==
    /\ pc = "call"
    /\ call.op = "Make7"
    /\ ReturnBuilt(SpecMake(call.attributes, call.stride, call.varyings,
                            call.vs, call.fs, call.cs, call.at))

CallMakeFromSourceWithStructs ==
    /\ pc = "call"
    /\ call.op = "MakeFromSourceWithStructs"
    /\ ReturnBuilt(MakeFromSourceWithStructs(call.attributes, call.stride,
                                             call.varyings, call.vs, call.fs,
                                             call.cs, call.at))

CallGetFsColorTypeAndLocalCoords ==
    /\ pc = "call"
    /\ call.op = "get_fs_color_type_and_local_coords"
    /\ Return(get_fs_color_type_and_local_coords(call.fsProgram))

CallMeshMake ==
    /\ pc = "call"
    /\ call.op = "Make"
    /\ Return(MeshMake(call.spec, call.mode, call.vb, call.vertexCount,
                       call.vertexOffset, call.bounds))

CallMeshMakeIndexed ==
    /\ pc = "call"
    /\ call.op = "MakeIndexed"
    /\ Return(MeshMakeIndexed(call.spec, call.mode, call.vb, call.vertexCount,
                              call.vertexOffset, call.ib, call.indexCount,
                              call.indexOffset, call.bounds))

Next ==
    \/ CallCheckVertexOffsetsAndStride
    \/ CallSpecMake5
    \/ CallSpecMake6
    \/ CallSpecMake7
    \/ CallMakeFromSourceWithStructs
    \/ CallGetFsColorTypeAndLocalCoords
    \/ CallMeshMake
    \/ CallMeshMakeIndexed

Spec == Init /\ [][Next]_vars

---------------------------------------------------------------------------
(* The specification of two builds: the first as above, then a second one  *)
(* whose Result is kept beside the first.                                  *)

InitHash ==
    /\ pc = "call"
    /\ \/ call \in HashCalls7
       \/ call \in HashCallsFromSource
    /\ ret = <<>>
    /\ compilerLog = <<>>
    /\ heap = <<>>
    /\ stages = <<>>
    /\ second = <<>>
    /\ meshes = <<>>
    /\ validity = <<>>

ReturnSecond(outcome) ==
    /\ second' = outcome.result
    /\ compilerLog' = compilerLog \o outcome.compiled
    /\ heap' = heap \o outcome.constructed
    /\ stages' = outcome.stages
    /\ pc' = "done2"
    /\ UNCHANGED <<call, ret, meshes, validity>>

SecondSpecMake7 ==
    /\ pc = "done"
    /\ \E c \in HashCalls7 :
           ReturnSecond(SpecMake(c.attributes, c.stride, c.varyings, c.vs, c.fs,
                                 c.cs, c.at))

SecondMakeFromSourceWithStructs ==
    /\ pc = "done"
    /\ \E c \in HashCallsFromSource :
           ReturnSecond(MakeFromSourceWithStructs(c.attributes, c.stride, c.varyings,
                                                  c.vs, c.fs, c.cs, c.at))

NextHash ==
    \/ CallSpecMake7
    \/ CallMakeFromSourceWithStructs
    \/ SecondSpecMake7
    \/ SecondMakeFromSourceWithStructs

SpecHash == InitHash /\ [][NextHash]_vars

---------------------------------------------------------------------------
(* The specification of the SkCustomMesh objects of a caller: MaxMeshes    *)
(* variables, each default constructed, then in any order and any number   *)
(* of times assigned a default mesh or the result of Make or MakeIndexed,  *)
(* copied or moved into one another, and asked isValid().                  *)

\* The number of mesh variables the caller has.
MaxMeshes == 2

MeshVariables == 1..MaxMeshes

LifeSpecs == {Null, Ref([fStride |-> 4])}

LifeIndexBuffers == {Null, Ref([size |-> 6])}

LifeVertexCounts == {0, 3, (SizeMod \div 4) + 3}

LifeVertexOffsets == {0, 1}

LifeIndexCounts == {0, 3}

LifeIndexOffsets == {0}

InitMesh ==
    /\ pc = "mesh"
    /\ call = [op |-> "SkCustomMesh"]
    /\ ret = <<>>
    /\ compilerLog = <<>>
    /\ heap = <<>>
    /\ stages = <<>>
    /\ second = <<>>
    /\ meshes = [v \in MeshVariables |-> DefaultMesh]
    /\ validity = <<>>

\* The state after an operation that leaves the meshes as given.
MeshStep(op, after) ==
    /\ call' = [op |-> op]
    /\ meshes' = after
    /\ UNCHANGED <<pc, ret, compilerLog, heap, stages, second, validity>>

\* v = SkCustomMesh();
AssignDefault ==
    /\ pc = "mesh"
    /\ \E v \in MeshVariables :
           MeshStep("SkCustomMesh", [meshes EXCEPT ![v] = DefaultMesh])

\* v = SkCustomMesh::Make(...);
AssignMake ==
    /\ pc = "mesh"
    /\ \E v \in MeshVariables, spec \in LifeSpecs, mode \in Modes, vb \in VertexBuffers,
          vertexCount \in LifeVertexCounts, vertexOffset \in LifeVertexOffsets :
           MeshStep("Make",
                    [meshes EXCEPT ![v] = MeshMake(spec, mode, vb, vertexCount,
                                                   vertexOffset, "unitSquare")])

\* v = SkCustomMesh::MakeIndexed(...);
AssignMakeIndexed ==
    /\ pc = "mesh"
    /\ \E v \in MeshVariables, spec \in LifeSpecs, mode \in Modes, vb \in VertexBuffers,
          vertexCount \in LifeVertexCounts, vertexOffset \in LifeVertexOffsets,
          ib \in LifeIndexBuffers, indexCount \in LifeIndexCounts,
          indexOffset \in LifeIndexOffsets :
           MeshStep("MakeIndexed",
                    [meshes EXCEPT ![v] = MeshMakeIndexed(spec, mode, vb, vertexCount,
                                                          vertexOffset, ib, indexCount,
                                                          indexOffset, "unitSquare")])

\* SkCustomMesh v(w); with v a variable whose old object is gone.
CopyConstruct ==
    /\ pc = "mesh"
    /\ \E v \in MeshVariables : \E w \in MeshVariables \ {v} :
           MeshStep("copy", [meshes EXCEPT ![v] = CopyOf(meshes[w])])

\* v = w; also with v and w the same object.
CopyAssign ==
    /\ pc = "mesh"
    /\ \E v \in MeshVariables, w \in MeshVariables :
           MeshStep("copy=", [meshes EXCEPT ![v] = CopyOf(meshes[w])])

\* SkCustomMesh v(std::move(w));
MoveConstruct ==
    /\ pc = "mesh"
    /\ \E v \in MeshVariables : \E w \in MeshVariables \ {v} :
           MeshStep("move", [meshes EXCEPT ![v] = meshes[w], ![w] = MovedFrom(meshes[w])])

\* v = std::move(w); moving an object into itself leaves its pointers as
\* they were or null, as sk_sp has it.
MoveAssign ==
    /\ pc = "mesh"
    /\ \E v \in MeshVariables, w \in MeshVariables :
           IF v = w
           THEN \E after \in {meshes[v], MovedFrom(meshes[v])} :
                    MeshStep("move=", [meshes EXCEPT ![v] = after])
           ELSE MeshStep("move=", [meshes EXCEPT ![v] = meshes[w],
                                                 ![w] = MovedFrom(meshes[w])])

\* v.isValid()
CallIsValid ==
    /\ pc = "mesh"
    /\ \E v \in MeshVariables :
           /\ call' = [op |-> "isValid"]
           /\ validity' = [of |-> v] @@ isValid(meshes[v])
    /\ UNCHANGED <<pc, ret, compilerLog, heap, stages, second, meshes>>

NextMesh ==
    \/ AssignDefault
    \/ AssignMake
    \/ AssignMakeIndexed
    \/ CopyConstruct
    \/ CopyAssign
    \/ MoveConstruct
    \/ MoveAssign
    \/ CallIsValid

SpecMesh == InitMesh /\ [][NextMesh]_vars

---------------------------------------------------------------------------
(* Properties of SkCustomMesh::Make and MakeIndexed.                       *)

MeshReturned == pc = "done" /\ call.op \in MeshOps

\* The arguments of the call as a mesh; Make has no index arguments.
SuppliedIB(c) == IF c.op = "MakeIndexed" THEN c.ib ELSE Null

SuppliedICount(c) == IF c.op = "MakeIndexed" THEN c.indexCount ELSE 0

SuppliedIOffset(c) == IF c.op = "MakeIndexed" THEN c.indexOffset ELSE 0

SuppliedMesh(c) ==
    [fSpec |-> c.spec, fMode |-> c.mode, fVB |-> c.vb, fIB |-> SuppliedIB(c),
     fVCount |-> c.vertexCount, fVOffset |-> c.vertexOffset,
     fICount |-> SuppliedICount(c), fIOffset |-> SuppliedIOffset(c),
     fBounds |-> c.bounds]

IsSentinel(m) ==
    /\ IsNull(m.fSpec) /\ IsNull(m.fVB) /\ IsNull(m.fIB)
    /\ m.fVCount = 0 /\ m.fVOffset = 0 /\ m.fICount = 0 /\ m.fIOffset = 0
    /\ m = DefaultMesh

\* C1: Make and MakeIndexed return either the mesh of exactly the supplied
\* fields, with a specification and passing validate(), or the sentinel that
\* equals a default-constructed mesh; never a mesh that holds supplied fields
\* and fails validation.
C1_FactoryReturnsValidMeshOrSentinel ==
    MeshReturned =>
        \/ /\ ret = SuppliedMesh(call)
           /\ ~IsNull(ret.fSpec)
           /\ validate(ret)
        \/ IsSentinel(ret)

\* A call with a specification and every buffer, rejected: the sentinel is
\* returned and nothing of the arguments is left in it.
C1_Witness ==
    /\ MeshReturned
    /\ call.op = "MakeIndexed"
    /\ ~IsNull(call.spec) /\ ~IsNull(call.vb) /\ ~IsNull(call.ib)
    /\ call.vertexCount # 0 /\ call.bounds # "empty"
    /\ IsSentinel(ret)

\* The conditions of validity, in unbounded arithmetic.
MeshShouldBeValid(c) ==
    /\ ~IsNull(c.spec)
    /\ ~IsNull(c.vb)
    /\ c.vertexCount # 0
    /\ Deref(c.spec).fStride * c.vertexCount + c.vertexOffset <= Deref(c.vb).size
    /\ c.vertexOffset % Deref(c.spec).fStride = 0
    /\ IF ~IsNull(SuppliedIB(c))
       THEN /\ SuppliedICount(c) >= 3
            /\ 2 * SuppliedICount(c) + SuppliedIOffset(c) <= Deref(SuppliedIB(c)).size
            /\ SuppliedIOffset(c) % 2 = 0
       ELSE /\ c.vertexCount >= 3
            /\ SuppliedICount(c) = 0
            /\ SuppliedIOffset(c) = 0

\* Make with stride 4 and a vertex buffer of 12 bytes, in Triangles mode.
TwelveByteCall(c, count, offset) ==
    /\ c.op = "Make"
    /\ c.mode = "kTriangles"
    /\ c.spec = Ref([fStride |-> 4])
    /\ c.vb = Ref([size |-> 12])
    /\ c.vertexCount = count
    /\ c.vertexOffset = offset

MeshIsValid(m) == ~IsNull(m.fSpec)

\* C2: the mesh returned is valid exactly when the specification and vertex
\* buffer are there, the vertex count is not zero, the vertex range lies in
\* the buffer and starts on a stride boundary, and either the index buffer is
\* there with at least 3 indices in range at an even offset, or it is not and
\* there are at least 3 vertices and no index count or offset. With stride 4
\* and 12 bytes: (3, 0) is valid; count 2, offset 1 and count 4 are not.
C2_ValidExactlyWhenConditionsHold ==
    MeshReturned =>
        /\ MeshIsValid(ret) <=> MeshShouldBeValid(call)
        /\ TwelveByteCall(call, 3, 0) => MeshIsValid(ret)
        /\ TwelveByteCall(call, 2, 0) => ~MeshIsValid(ret)
        /\ TwelveByteCall(call, 3, 1) => ~MeshIsValid(ret)
        /\ TwelveByteCall(call, 4, 0) => ~MeshIsValid(ret)
        /\ (IsNull(SuppliedIB(call)) /\ SuppliedICount(call) # 0) => ~MeshIsValid(ret)

\* The valid case of the example.
C2_Witness ==
    /\ MeshReturned
    /\ TwelveByteCall(call, 3, 0)
    /\ MeshIsValid(ret)
    /\ ret.fVCount = 3

\* Whether one of the four size_t results of validate does not fit.
VertexSizeOverflows(c) ==
    \/ Deref(c.spec).fStride * c.vertexCount >= SizeMod
    \/ WrapMul(Deref(c.spec).fStride, c.vertexCount) + c.vertexOffset >= SizeMod

IndexSizeOverflows(c) ==
    \/ IndexSize * SuppliedICount(c) >= SizeMod
    \/ WrapMul(IndexSize, SuppliedICount(c)) + SuppliedIOffset(c) >= SizeMod

\* C10: when stride * vertexCount, that plus vertexOffset, 2 * indexCount or
\* that plus indexOffset overflows size_t, the factory returns the sentinel,
\* whatever the wrapped value is.
C10_OverflowIsInvalid ==
    (MeshReturned /\ ~IsNull(call.spec)
        /\ (VertexSizeOverflows(call) \/ IndexSizeOverflows(call)))
    => IsSentinel(ret)

\* A sum that wraps around to a value inside the buffer, with every other
\* check passing.
C10_Witness ==
    /\ MeshReturned
    /\ call.op = "Make"
    /\ ~IsNull(call.spec) /\ ~IsNull(call.vb)
    /\ VertexSizeOverflows(call)
    /\ WrapAdd(WrapMul(Deref(call.spec).fStride, call.vertexCount), call.vertexOffset)
           <= Deref(call.vb).size
    /\ call.vertexOffset % Deref(call.spec).fStride = 0
    /\ call.vertexCount >= 3
    /\ IsSentinel(ret)

---------------------------------------------------------------------------
(* Properties of check_vertex_offsets_and_stride.                          *)

LayoutReturned == pc = "done" /\ call.op = "check_vertex_offsets_and_stride"

\* The size of a vertex attribute of each type, in bytes.
SizeOfType ==
    [t \in AttributeTypes |->
        CASE t = "kFloat" -> 4 [] t = "kFloat2" -> 8 [] t = "kFloat3" -> 12
          [] t = "kFloat4" -> 16 [] t = "kUByte4_unorm" -> 4]

OffsetFits(a, stride) ==
    /\ a.offset % kOffsetAlignment = 0
    /\ a.offset + SizeOfType[a.type] <= stride

\* The accepted layouts, in unbounded arithmetic.
LayoutShouldPass(attributes, stride) ==
    /\ 1 <= Len(attributes)
    /\ Len(attributes) <= kMaxAttributes
    /\ stride # 0
    /\ stride % kStrideAlignment = 0
    /\ stride <= kMaxStride
    /\ \A i \in DOMAIN attributes : OffsetFits(attributes[i], stride)

WithOffset(attributes, i, offset) == [attributes EXCEPT ![i].offset = offset]

\* C7: the check returns Ok exactly for 1 to kMaxAttributes attributes, a
\* non-zero stride that is a multiple of kStrideAlignment and at most
\* kMaxStride, and offsets that are multiples of kOffsetAlignment with
\* offset + size <= stride without wrapping; and an accepted layout with one
\* offset changed to a misaligned one, or to one whose attribute ends beyond
\* the stride (also where the sum wraps around), is an Error.
C7_LayoutAcceptedExactlyWhenItFits ==
    LayoutReturned =>
        /\ ret.ok <=> LayoutShouldPass(call.attributes, call.stride)
        /\ ret.ok =>
             \A i \in DOMAIN call.attributes : \A o \in LayoutOffsets :
                 ~OffsetFits([call.attributes[i] EXCEPT !.offset = o], call.stride)
                 => ~check_vertex_offsets_and_stride(WithOffset(call.attributes, i, o),
                                                     call.stride).ok

\* A rejected layout whose only fault is an offset so large that offset +
\* size wraps around to a value within the stride.
C7_Witness ==
    /\ LayoutReturned
    /\ ~ret.ok
    /\ Len(call.attributes) = kMaxAttributes
    /\ \E i \in DOMAIN call.attributes :
           /\ WrapAdd(call.attributes[i].offset, SizeOfType[call.attributes[i].type])
                  <= call.stride
           /\ call.attributes[i].offset + SizeOfType[call.attributes[i].type] >= SizeMod
           /\ LayoutShouldPass(WithOffset(call.attributes, i, 0), call.stride)

---------------------------------------------------------------------------
(* Properties of get_fs_color_type_and_local_coords.                       *)

ContractReturned == pc = "done" /\ call.op = "get_fs_color_type_and_local_coords"

\* The main of a program that has one.
MainOf(p) ==
    LET i == CHOOSE k \in DOMAIN p.elements :
                 p.elements[k].isFunctionDefinition /\ p.elements[k].isMain
    IN  p.elements[i]

\* C9: the color type is None for a main of 1 parameter, Half4 for 2 with a
\* half4 second parameter, Float4 with a float4 one; local coordinates are
\* there exactly when main returns float2. So void main of 1 parameter is
\* (None, false), and float2 main with a half4 second is (Half4, true).
C9_ContractOfMain ==
    ContractReturned =>
        LET main == MainOf(call.fsProgram)
            n    == Len(main.parameters)
        IN  /\ n = 1 => ret.ct = "kNone"
            /\ (n = 2 /\ main.parameters[2] = "half4") => ret.ct = "kHalf4"
            /\ (n = 2 /\ main.parameters[2] = "float4") => ret.ct = "kFloat4"
            /\ ret.hasLocalCoords <=> main.returnType = "float2"
            /\ (n = 1 /\ main.returnType = "void")
                   => ret = [ct |-> "kNone", hasLocalCoords |-> FALSE]
            /\ (n = 2 /\ main.parameters[2] = "half4" /\ main.returnType = "float2")
                   => ret = [ct |-> "kHalf4", hasLocalCoords |-> TRUE]

\* The second example, with another function before main.
C9_Witness ==
    /\ ContractReturned
    /\ Len(call.fsProgram.elements) = 3
    /\ MainOf(call.fsProgram).parameters = <<"Varyings", "half4">>
    /\ MainOf(call.fsProgram).returnType = "float2"
    /\ ret = [ct |-> "kHalf4", hasLocalCoords |-> TRUE]

---------------------------------------------------------------------------
(* Properties of specification construction. What a call should do is      *)
(* stated from its arguments: which steps they fail, by themselves.        *)

BuildReturned == pc = "done" /\ call.op \in BuildOps

\* The color space and alpha type the overload passes on.
PassedColorSpace(c) == IF c.op = "Make5" THEN Ref(SRGB) ELSE c.cs

PassedAlphaType(c) == IF c.op \in {"Make5", "Make6"} THEN "kPremul_SkAlphaType" ELSE c.at

\* The shader bodies the caller wrote: what ends each source.
UserVS(c) == c.vs[Len(c.vs)]

UserFS(c) == c.fs[Len(c.fs)]

NameIsBad(name) ==
    \/ Len(name) = 0
    \/ \E i \in DOMAIN name : name[i] \notin Letters \cup Digits \cup {"_"}

HasBadName(items) == \E i \in DOMAIN items : NameIsBad(items[i].name)

FirstBadName(items) ==
    LET i == CHOOSE k \in DOMAIN items :
                 /\ NameIsBad(items[k].name)
                 /\ \A j \in DOMAIN items : j < k => ~NameIsBad(items[j].name)
    IN  items[i].name

\* Whether main of the fragment body has a color output parameter.
OutputsColor(c) ==
    UserFS(c) \in {FSMainHalf4, FSMainHalf4Coords, FSMainFloat4, FSMainFloat4Coords}

ColorArgumentsMissing(c) ==
    /\ OutputsColor(c)
    /\ IsNull(PassedColorSpace(c)) \/ PassedAlphaType(c) = "kUnknown_SkAlphaType"

\* Whether the arguments fail a stage, whatever the other stages do.
StageFails(stage, c) ==
    CASE stage = "layout"          -> ~LayoutShouldPass(c.attributes, c.stride)
      [] stage = "attributeNames"  -> HasBadName(c.attributes)
      [] stage = "varyingNames"    -> HasBadName(c.varyings)
      [] stage = "names"           -> HasBadName(c.attributes) \/ HasBadName(c.varyings)
      [] stage = "varyingCount"    -> Len(c.varyings) > kMaxVaryings
      [] stage = "vertexCompile"   -> UserVS(c) # VSMain
      [] stage = "fragmentCompile" -> UserFS(c) \in {FSSyntaxError, FSNoMain, FSIntrinsic}
      [] OTHER                     -> FALSE

CheckedStages ==
    <<"layout", "attributeNames", "varyingCount", "varyingNames", "vertexCompile",
      "fragmentCompile">>

SomeStageFails(c) ==
    \/ \E i \in DOMAIN CheckedStages : StageFails(CheckedStages[i], c)
    \/ ColorArgumentsMissing(c)

\* C3: construction returns either a specification and an empty message,
\* when no stage fails, or no specification and a message that is not empty,
\* when one does; a specification never comes with a failure, and a failing
\* call constructs no object.
C3_ConstructionFailsClosed ==
    BuildReturned =>
        \/ /\ ~IsNull(ret.spec)
           /\ TextIsEmpty(ret.error)
           /\ heap = <<Deref(ret.spec)>>
           /\ ~SomeStageFails(call)
        \/ /\ IsNull(ret.spec)
           /\ ~TextIsEmpty(ret.error)
           /\ heap = <<>>
           /\ SomeStageFails(call)

\* A call that fails at its last check, both programs compiled.
C3_Witness ==
    /\ BuildReturned
    /\ Len(compilerLog) = 2
    /\ OutputsColor(call)
    /\ PassedAlphaType(call) = "kUnknown_SkAlphaType"
    /\ IsNull(ret.spec)
    /\ ~TextIsEmpty(ret.error)
    /\ heap = <<>>

\* The stage of the claim that a step of the code belongs to; the checks of
\* the color space and alpha type and the construction come after the last.
StageOfStep(step) ==
    CASE step \in {"compileVS", "mainVS", "intrinsicsVS"} -> "vertexCompile"
      [] step \in {"compileFS", "mainFS", "intrinsicsFS"} -> "fragmentCompile"
      [] step \in {"colorSpace", "alphaType", "construct"} -> "finish"
      [] OTHER -> step

\* The same, with the two name checks as the one stage the claim speaks of.
ClaimedStageOfStep(step) ==
    IF step \in {"attributeNames", "varyingNames"} THEN "names" ELSE StageOfStep(step)

\* The stages a log went through: each run of equal entries once.
RECURSIVE RunsOfFrom(_, _)
RunsOfFrom(log, i) ==
    IF i > Len(log)
    THEN <<>>
    ELSE IF i > 1 /\ log[i] = log[i - 1]
    THEN RunsOfFrom(log, i + 1)
    ELSE <<log[i]>> \o RunsOfFrom(log, i + 1)

StagesEntered == RunsOfFrom([i \in DOMAIN stages |-> StageOfStep(stages[i])], 1)

ClaimedStagesEntered == RunsOfFrom([i \in DOMAIN stages |-> ClaimedStageOfStep(stages[i])], 1)

\* The order of the stages in the code; Make synthesizes the sources first.
OrderInCode(c) ==
    (IF c.op = "MakeFromSourceWithStructs" THEN <<>> ELSE <<"synthesis">>)
    \o <<"layout", "attributeNames", "varyingCount", "varyingNames", "vertexCompile",
         "fragmentCompile", "contract">>

\* The order of the stages as claimed.
OrderAsClaimed(c) ==
    <<"layout", "names", "varyingCount">>
    \o (IF c.op = "MakeFromSourceWithStructs" THEN <<>> ELSE <<"synthesis">>)
    \o <<"vertexCompile", "fragmentCompile", "contract">>

AnyFails(order, c) == \E i \in DOMAIN order : StageFails(order[i], c)

FirstFailing(order, c) ==
    CHOOSE i \in DOMAIN order :
        /\ StageFails(order[i], c)
        /\ \A j \in DOMAIN order : j < i => ~StageFails(order[j], c)

\* The messages of each stage.
LayoutMessages ==
    {<<"At least 1 attribute is required.">>,
     <<"A maximum of ", ToString(kMaxAttributes), " attributes is allowed.">>,
     <<"Vertex stride must be a non-zero multiple of ", ToString(kStrideAlignment), ".">>,
     <<"Stride cannot exceed ", ToString(kMaxStride), ".">>,
     <<"Attribute offset must be a multiple of ", ToString(kOffsetAlignment), ".">>,
     <<"Attribute offset plus size cannot exceed stride.">>}

IsMessageOf(stage, error, c) ==
    CASE stage = "layout" -> error \in LayoutMessages
      [] stage = "attributeNames" ->
             error = <<"\"">> \o FirstBadName(c.attributes)
                     \o <<"\" is not a valid attribute name.">>
      [] stage = "varyingNames" ->
             error = <<"\"">> \o FirstBadName(c.varyings)
                     \o <<"\" is not a valid varying name.">>
      [] stage = "names" ->
             error[Len(error)] \in {"\" is not a valid attribute name.",
                                    "\" is not a valid varying name."}
      [] stage = "varyingCount" ->
             error = <<"A maximum of ", ToString(kMaxVaryings), " varyings is allowed.">>
      [] stage = "vertexCompile" ->
             \/ error[1] = "VS: "
             \/ error = <<"Vertex shader must have main function.">>
             \/ error = <<"Color transform intrinsics are not permitted in custom mesh shaders">>
      [] stage = "fragmentCompile" ->
             \/ error[1] = "FS: "
             \/ error = <<"Fragment shader must have main function.">>
             \/ error = <<"Color transform intrinsics are not permitted in custom mesh shaders">>
      [] OTHER -> FALSE

\* A call went through the stages in the order: the stages it entered are
\* those of the order up to the first its arguments fail, and no other; and
\* when a stage fails the message returned is that of this stage.
StagesRunInOrder(order, entered, c) ==
    IF AnyFails(order, c)
    THEN /\ entered = SubSeq(order, 1, FirstFailing(order, c))
         /\ IsNull(ret.spec)
         /\ IsMessageOf(order[FirstFailing(order, c)], ret.error, c)
    ELSE entered = order \o <<"finish">>

IsNamingError(error) ==
    /\ Len(error) > 0
    /\ error[Len(error)] \in {"\" is not a valid attribute name.",
                              "\" is not a valid varying name."}

AnyNameIsBad(c) == HasBadName(c.attributes) \/ HasBadName(c.varyings)

\* C5, as claimed: with a name that is empty or has a character other than a
\* letter, a digit or an underscore, construction returns no specification
\* and a naming error, and the compiler is not invoked.
C5_BadNameGivesNamingError ==
    (BuildReturned /\ AnyNameIsBad(call)) =>
        /\ IsNull(ret.spec)
        /\ IsNamingError(ret.error)
        /\ compilerLog = <<>>

\* C5, amended: with such a name construction returns no specification and
\* a message that is not empty, and the compiler is not invoked; the message
\* is a naming error when the layout passes and either an attribute name is
\* bad or there are at most kMaxVaryings varyings (else it is the error of
\* the layout or of the varying count, which are checked first).
C5_BadNameNeverCompiled ==
    (BuildReturned /\ AnyNameIsBad(call)) =>
        /\ IsNull(ret.spec)
        /\ ~TextIsEmpty(ret.error)
        /\ compilerLog = <<>>
        /\ (/\ LayoutShouldPass(call.attributes, call.stride)
            /\ HasBadName(call.attributes) \/ Len(call.varyings) <= kMaxVaryings)
           => IsNamingError(ret.error)

\* An attribute name with a semicolon in an otherwise good call of Make.
C5_Witness ==
    /\ BuildReturned
    /\ call.op = "Make7"
    /\ \E i \in DOMAIN call.attributes : ";" \in {call.attributes[i].name[k] :
                                                    k \in DOMAIN call.attributes[i].name}
    /\ ~StageFails("layout", call)
    /\ UserVS(call) = VSMain /\ UserFS(call) = FSMainVoid
    /\ IsNull(ret.spec)
    /\ IsNamingError(ret.error)
    /\ compilerLog = <<>>

\* C6: a specification returned has no color space and premultiplied alpha
\* when its color type is None, whatever was passed, and a color space and an
\* alpha type other than unknown when it is not; a build whose fragment main
\* outputs a color and that is passed no color space or the unknown alpha
\* type returns no specification.
C6_ColorInvariant ==
    BuildReturned =>
        /\ ~IsNull(ret.spec) =>
               LET o == Deref(ret.spec)
               IN  /\ (o.fColorType = "kNone") <=> ~OutputsColor(call)
                   /\ o.fColorType = "kNone" =>
                          /\ IsNull(o.fColorSpace)
                          /\ o.fAlphaType = "kPremul_SkAlphaType"
                   /\ o.fColorType # "kNone" =>
                          /\ ~IsNull(o.fColorSpace)
                          /\ o.fAlphaType # "kUnknown_SkAlphaType"
        /\ ColorArgumentsMissing(call) => IsNull(ret.spec)

\* No color output, and a color space and unpremultiplied alpha passed.
C6_Witness ==
    /\ BuildReturned
    /\ ~IsNull(ret.spec)
    /\ Deref(ret.spec).fColorType = "kNone"
    /\ ~IsNull(PassedColorSpace(call))
    /\ PassedAlphaType(call) = "kUnpremul_SkAlphaType"
    /\ IsNull(Deref(ret.spec).fColorSpace)
    /\ Deref(ret.spec).fAlphaType = "kPremul_SkAlphaType"

---------------------------------------------------------------------------
(* The identity hash, under SpecHash.                                      *)

BothBuilt == pc = "done2" /\ ~IsNull(ret.spec) /\ ~IsNull(second.spec)

\* What the hash is claimed to be a function of.
HashedTuple(o) ==
    <<o.fVS.fSource, o.fFS.fSource,
      [i \in DOMAIN o.fAttributes |-> <<o.fAttributes[i].offset, o.fAttributes[i].type>>],
      o.fStride,
      IF IsNull(o.fColorSpace) THEN 0 ELSE Deref(o.fColorSpace).hash,
      o.fAlphaType>>

\* C8: two specifications with the same final sources, the same offset and
\* type of each attribute in order, the same stride, the same color space
\* hash (zero for none) and the same alpha type have the same hash, whatever
\* else differs between them.
C8_HashIsFunctionOfTuple ==
    BothBuilt =>
        (HashedTuple(Deref(ret.spec)) = HashedTuple(Deref(second.spec))
         => Deref(ret.spec).fHash = Deref(second.spec).fHash)

\* Two specifications equal in all that is hashed, with other attribute names
\* and other varyings.
C8_Witness ==
    /\ BothBuilt
    /\ HashedTuple(Deref(ret.spec)) = HashedTuple(Deref(second.spec))
    /\ Deref(ret.spec).fAttributes # Deref(second.spec).fAttributes
    /\ Deref(ret.spec).fVaryings # Deref(second.spec).fVaryings
    /\ Deref(ret.spec).fHash = Deref(second.spec).fHash

---------------------------------------------------------------------------
(* The assertion of isValid(), under SpecMesh.                             *)

\* C11: the assertion in isValid() never fails: of every mesh a caller can
\* have after any default constructions, Make and MakeIndexed calls, copies
\* and moves, a mesh that was moved from included, the specification is not
\* null exactly when validate() is true; and every isValid() call saw its two
\* sides equal.
C11_IsValidAssertionHolds ==
    pc = "mesh" =>
        /\ \A v \in MeshVariables : ~IsNull(meshes[v].fSpec) <=> validate(meshes[v])
        /\ validity # <<>> => validity.valid = validity.validate

\* isValid() of a mesh that was moved from: no pointers, its counts kept.
C11_Witness ==
    /\ pc = "mesh"
    /\ validity # <<>>
    /\ call.op = "isValid"
    /\ LET m == meshes[validity.of]
       IN  /\ IsNull(m.fSpec) /\ IsNull(m.fVB) /\ IsNull(m.fIB)
           /\ m.fVCount = 3 /\ m.fICount = 3
           /\ ~validity.valid
           /\ ~validity.validate

====
